---- MODULE Spec2Model ----
(***************************************************************************)
(* A model of the rusty-advent-2024 crate: the `maps` module of lib.rs     *)
(* (Position / ValidPosition / Bounds / Direction / Map2D) and the disk    *)
(* compaction of bin/day09.rs.                                             *)
(*                                                                         *)
(* Positions, valid positions and bounds are pairs <<x, y>>, <<w, h>>.     *)
(* Option<T> is modelled as a sequence of length 0 (None) or 1 (Some).     *)
(* A call that can panic returns a record [panic, val].                    *)
(***************************************************************************)
EXTENDS Integers, Sequences, FiniteSets, TLC

VARIABLES
    overflow_checks,  \* build profile: TRUE = arithmetic overflow panics (debug)
    \* ---- Direction
    dir0, dir, ops,
    \* ---- Position / ValidPosition calls
    call,
    \* ---- Map2D and its queries
    lines, elem, data, bounds, query, iter, yielded,
    \* ---- Map2D::contiguous_region
    pos, visited, to_visit, target_value, pc, expanded,
    \* ---- day09
    string, harddisk, left_block_idx, right_block_idx, compressed_harddisk,
    free_space_in_left_block, files_remaining_in_right_block, dpc, answer

dirVars == <<dir0, dir, ops>>
posVars == <<call>>
mapVars == <<lines, elem, data, bounds>>
queryVars == <<query, iter, yielded>>
regionVars == <<pos, visited, to_visit, target_value, pc, expanded>>
diskVars == <<string, harddisk, left_block_idx, right_block_idx, compressed_harddisk,
              free_space_in_left_block, files_remaining_in_right_block, dpc, answer>>
vars == <<overflow_checks, dirVars, posVars, mapVars, queryVars, regionVars, diskVars>>

(***************************************************************************)
(* Bounds of the model.                                                    *)
(***************************************************************************)
\* width in bits of the model's i32 (the program's is 32)
I32Bits == 3
\* width in bits of the model's usize (the program's is the machine word)
UsizeBits == 3
\* longest sequence of turn_* calls on one Direction variable
MaxTurns == 3
\* largest grid width and height
MaxWidth == 3
MaxHeight == 2
\* longest disk map and largest digit in it
MaxDiskLen == 3
MaxDigit == 3

RECURSIVE Pow2(_)
Pow2(n) == IF n = 0 THEN 1 ELSE 2 * Pow2(n - 1)

I32 == (0 - Pow2(I32Bits - 1)) .. (Pow2(I32Bits - 1) - 1)
Usize == 0 .. (Pow2(UsizeBits) - 1)

None == << >>
Some(v) == << v >>

Ok(v) == [panic |-> FALSE, val |-> v]
\* a panicking call; `d` is a placeholder of the result's type
Panic(d) == [panic |-> TRUE, val |-> d]

\* `u as i32` for an unsigned u: keep the low I32Bits bits, read as two's complement
AsI32(u) ==
    LET m == u % Pow2(I32Bits)
    IN  IF m >= Pow2(I32Bits - 1) THEN m - Pow2(I32Bits) ELSE m

\* i32 `a + b` (b = 1 or -1): panics with overflow checks, wraps without
AddI32(a, b, checks) ==
    LET s == a + b
    IN  IF s \in I32 THEN Ok(s)
        ELSE IF checks THEN Panic(0)
        ELSE Ok(AsI32(s + Pow2(I32Bits)))

(***************************************************************************)
(* Direction                                                               *)
(***************************************************************************)
Direction == {"UP", "RIGHT", "DOWN", "LEFT"}

turned_right(d) ==
    CASE d = "UP" -> "RIGHT"
      [] d = "RIGHT" -> "DOWN"
      [] d = "DOWN" -> "LEFT"
      [] d = "LEFT" -> "UP"

turned_left_swapped(d) ==
    CASE d = "UP" -> "LEFT"
      [] d = "LEFT" -> "DOWN"
      [] d = "DOWN" -> "UP"
      [] d = "RIGHT" -> "RIGHT"

turned_left(d) ==
    CASE d = "UP" -> "LEFT"
      [] d = "LEFT" -> "DOWN"
      [] d = "DOWN" -> "RIGHT"
      [] d = "RIGHT" -> "UP"

turned_around(d) ==
    CASE d = "UP" -> "DOWN"
      [] d = "RIGHT" -> "LEFT"
      [] d = "DOWN" -> "UP"
      [] d = "LEFT" -> "RIGHT"

iter_all == <<"UP", "RIGHT", "DOWN", "LEFT">>

(***************************************************************************)
(* Position, ValidPosition, Bounds                                         *)
(***************************************************************************)
\* impl From<ValidPosition> for Position
PositionFrom(vp) == <<AsI32(vp[1]), AsI32(vp[2])>>

\* impl From<(usize, usize)> for ValidPosition
ValidPositionFrom(t) == <<t[1], t[2]>>

in_bounds(p, b) ==
    IF p[1] >= 0 /\ p[2] >= 0 /\ p[1] < AsI32(b[1]) /\ p[2] < AsI32(b[2])
    THEN Some(<<p[1], p[2]>>)
    ELSE None

\* the four coordinates computed by Position::neighbours, in the vec's order
NeighbourCoords(p, checks) ==
    << <<AddI32(p[1], 1, checks), Ok(p[2])>>,
       <<AddI32(p[1], -1, checks), Ok(p[2])>>,
       <<Ok(p[1]), AddI32(p[2], 1, checks)>>,
       <<Ok(p[1]), AddI32(p[2], -1, checks)>> >>

neighbours_diagonal(p, checks) ==
    LET c == NeighbourCoords(p, checks)
    IN  IF \E i \in 1..4 : c[i][1].panic \/ c[i][2].panic
        THEN Panic(<< >>)
        ELSE Ok(<< <<c[1][1].val, c[3][2].val>>, <<c[2][1].val, c[2][2].val>>,
                   <<c[3][1].val, c[3][2].val>>, <<c[4][1].val, c[4][2].val>> >>)

neighbours(p, checks) ==
    LET c == NeighbourCoords(p, checks)
    IN  IF \E i \in 1..4 : c[i][1].panic \/ c[i][2].panic
        THEN Panic(<< >>)
        ELSE Ok([i \in 1..4 |-> <<c[i][1].val, c[i][2].val>>])

\* .into_iter().filter_map(|neib| neib.in_bounds(bounds)).collect()
FilterInBounds(ns, b) ==
    {in_bounds(ns[i], b)[1] : i \in {j \in 1..Len(ns) : in_bounds(ns[j], b) # None}}

Position_valid_neighbours(p, b, checks) ==
    LET ns == neighbours(p, checks)
    IN  IF ns.panic THEN Panic({}) ELSE Ok(FilterInBounds(ns.val, b))

ValidPosition_valid_neighbours(vp, b, checks) ==
    LET ns == neighbours(PositionFrom(vp), checks)
    IN  IF ns.panic THEN Panic({}) ELSE Ok(FilterInBounds(ns.val, b))

step(p, d, checks) ==
    LET x == p[1]
        y == p[2]
        r == CASE d = "UP" -> <<Ok(x), AddI32(y, -1, checks)>>
               [] d = "RIGHT" -> <<AddI32(x, 1, checks), Ok(y)>>
               [] d = "DOWN" -> <<Ok(x), AddI32(y, 1, checks)>>
               [] d = "LEFT" -> <<AddI32(x, -1, checks), Ok(y)>>
    IN  IF r[1].panic \/ r[2].panic THEN Panic(<<0, 0>>) ELSE Ok(<<r[1].val, r[2].val>>)

(***************************************************************************)
(* HasCharConverter and Map2D                                              *)
(***************************************************************************)
Digits == <<"0", "1", "2", "3", "4", "5", "6", "7", "8", "9">>

\* char::to_digit(10)
to_digit(c) ==
    IF \E i \in 1..Len(Digits) : Digits[i] = c
    THEN Some((CHOOSE i \in 1..Len(Digits) : Digits[i] = c) - 1)
    ELSE None

\* impl HasCharConverter for u32
convert_u32(c) == IF to_digit(c) = None THEN Panic(0) ELSE Ok(to_digit(c)[1])

\* impl HasCharConverter for char
convert_char(c) == Ok(c)

convert(ty, c) == IF ty = "u32" THEN convert_u32(c) ELSE convert_char(c)

\* the characters the model's grids are written in, per element type
Alphabet(ty) == IF ty = "u32" THEN {"1", "2"} ELSE {"A", "B"}

\* rectangular input: h lines of w characters each
RectLines(ty) ==
    UNION {[1..h -> [1..w -> Alphabet(ty)]] : <<w, h>> \in (1..MaxWidth) \X (1..MaxHeight)}

\* impl From<Lines<B>> for Map2D<T>: data is the vector of converted lines,
\* bounds is (length of the first line, number of lines)
Map2DFrom(ty, ls) ==
    LET d == [r \in 1..Len(ls) |-> [c \in 1..Len(ls[r]) |-> convert(ty, ls[r][c]).val]]
    IN  [data |-> d, bounds |-> <<Len(d[1]), Len(d)>>]

\* itertools' Product over (0..w) x (0..h): a and b are the next items of the two
\* ranges, a_cur is the Option<Option<usize>> holding the current outer item
position_iter(b) == [a |-> 0, a_cur |-> None, b |-> 0]

RangeNext(n, end) == IF n < end THEN [item |-> Some(n), n |-> n + 1]
                                ELSE [item |-> None, n |-> n]

\* Product::next followed by map_into: the new iterator state and the item yielded
position_iter_next_rowmajor(it, b) ==
    LET nb == RangeNext(it.b, b[1])
        reset == RangeNext(0, b[1])
        na == RangeNext(it.a, b[2])
    IN  IF nb.item # None
        THEN LET cur == IF it.a_cur = None THEN Some(na.item) ELSE it.a_cur
                 a2 == IF it.a_cur = None THEN na.n ELSE it.a
             IN  [it |-> [a |-> a2, a_cur |-> cur, b |-> nb.n],
                  item |-> IF cur[1] = None THEN None
                           ELSE Some(ValidPositionFrom(<<nb.item[1], cur[1][1]>>))]
        ELSE IF reset.item = None
        THEN [it |-> [a |-> it.a, a_cur |-> it.a_cur, b |-> reset.n], item |-> None]
        ELSE [it |-> [a |-> na.n, a_cur |-> Some(na.item), b |-> reset.n],
              item |-> IF na.item = None THEN None
                       ELSE Some(ValidPositionFrom(<<reset.item[1], na.item[1]>>))]

position_iter_next(it, b) ==
    LET nb == RangeNext(it.b, b[2])
        reset == RangeNext(0, b[2])
        na == RangeNext(it.a, b[1])
    IN  IF nb.item # None
        THEN LET cur == IF it.a_cur = None THEN Some(na.item) ELSE it.a_cur
                 a2 == IF it.a_cur = None THEN na.n ELSE it.a
             IN  [it |-> [a |-> a2, a_cur |-> cur, b |-> nb.n],
                  item |-> IF cur[1] = None THEN None
                           ELSE Some(ValidPositionFrom(<<cur[1][1], nb.item[1]>>))]
        ELSE IF reset.item = None
        THEN [it |-> [a |-> it.a, a_cur |-> it.a_cur, b |-> reset.n], item |-> None]
        ELSE [it |-> [a |-> na.n, a_cur |-> Some(na.item), b |-> reset.n],
              item |-> IF na.item = None THEN None
                       ELSE Some(ValidPositionFrom(<<na.item[1], reset.item[1]>>))]

\* every item of a position iterator, in order (what .filter(..).collect() consumes)
RECURSIVE Drain(_, _)
Drain(it, b) ==
    LET n == position_iter_next(it, b)
    IN  IF n.item = None THEN << >> ELSE <<n.item[1]>> \o Drain(n.it, b)

\* &self.data[pos.0][pos.1]: either index out of range panics
value(d, p) ==
    IF p[1] < Len(d) /\ p[2] < Len(d[p[1] + 1])
    THEN Ok(d[p[1] + 1][p[2] + 1])
    ELSE Panic(d[1][1])

find(d, b, target) ==
    LET ps == Drain(position_iter(b), b)
    IN  IF \E i \in 1..Len(ps) : value(d, ps[i]).panic
        THEN Panic({})
        ELSE Ok({ps[i] : i \in {j \in 1..Len(ps) : value(d, ps[j]).val = target}})

\* the orders in which a HashSet can be iterated
Orders(S) == {f \in [1..Cardinality(S) -> S] : \A i, j \in 1..Cardinality(S) : f[i] = f[j] => i = j}

\* the `for neib in ...` loop of contiguous_region over the neighbours in order ns,
\* from index i on: the frontier it leaves, and whether a lookup panicked
RECURSIVE EnqueueMatching(_, _, _, _, _)
EnqueueMatching(d, target, q, ns, i) ==
    IF i > Len(ns) THEN [panic |-> FALSE, val |-> q]
    ELSE LET v == value(d, ns[i])
         IN  IF v.panic THEN [panic |-> TRUE, val |-> q]
             ELSE EnqueueMatching(d, target, IF v.val = target THEN Append(q, ns[i]) ELSE q, ns, i + 1)

\* the positions of a map: those Position::in_bounds accepts against its bounds
ValidPositions(b) ==
    {in_bounds(p, b)[1] : p \in {q \in I32 \X I32 : in_bounds(q, b) # None}}

(***************************************************************************)
(* Values the variables of a component hold while another one is exercised *)
(***************************************************************************)
DirIdle == dir0 = "UP" /\ dir = "UP" /\ ops = << >>
PosIdle == call = [op |-> "none"]
MapIdle == lines = << >> /\ elem = "char" /\ data = << >> /\ bounds = <<0, 0>>
QueryIdle == query = [op |-> "none"] /\ iter = [live |-> FALSE] /\ yielded = << >>
RegionIdle ==
    /\ pos = <<0, 0>> /\ visited = {} /\ to_visit = << >>
    /\ target_value = "" /\ pc = "idle" /\ expanded = << >>
DiskIdle ==
    /\ string = << >> /\ harddisk = << >>
    /\ left_block_idx = 0 /\ right_block_idx = 0 /\ compressed_harddisk = << >>
    /\ free_space_in_left_block = None /\ files_remaining_in_right_block = None
    /\ dpc = "idle" /\ answer = None

(***************************************************************************)
(* Direction: a variable turned in place by turn_right / turn_left /       *)
(* turn_around; ops records the calls made on it                           *)
(***************************************************************************)
DirInit ==
    /\ overflow_checks \in BOOLEAN
    /\ dir0 \in Direction /\ dir = dir0 /\ ops = << >>
    /\ PosIdle /\ MapIdle /\ QueryIdle /\ RegionIdle /\ DiskIdle

turn_right ==
    /\ Len(ops) < MaxTurns
    /\ dir' = turned_right(dir)
    /\ ops' = Append(ops, "right")
    /\ UNCHANGED <<overflow_checks, dir0, posVars, mapVars, queryVars, regionVars, diskVars>>

turn_left ==
    /\ Len(ops) < MaxTurns
    /\ dir' = turned_left(dir)
    /\ ops' = Append(ops, "left")
    /\ UNCHANGED <<overflow_checks, dir0, posVars, mapVars, queryVars, regionVars, diskVars>>

turn_around ==
    /\ Len(ops) < MaxTurns
    /\ dir' = turned_around(dir)
    /\ ops' = Append(ops, "around")
    /\ UNCHANGED <<overflow_checks, dir0, posVars, mapVars, queryVars, regionVars, diskVars>>

DirNext == turn_right \/ turn_left \/ turn_around

DirSpec == DirInit /\ [][DirNext]_vars

(***************************************************************************)
(* Position / ValidPosition: one call of an operation on arbitrary         *)
(* arguments; call records the arguments and the result                    *)
(***************************************************************************)
PosInit ==
    /\ overflow_checks \in BOOLEAN
    /\ call = [op |-> "none"]
    /\ DirIdle /\ MapIdle /\ QueryIdle /\ RegionIdle /\ DiskIdle

InBoundsCall ==
    /\ call.op = "none"
    /\ \E p \in I32 \X I32, b \in Usize \X Usize :
          call' = [op |-> "in_bounds", p |-> p, b |-> b, out |-> in_bounds(p, b)]
    /\ UNCHANGED <<overflow_checks, dirVars, mapVars, queryVars, regionVars, diskVars>>

StepCall ==
    /\ call.op = "none"
    /\ \E p \in I32 \X I32, d \in Direction :
          call' = [op |-> "step", p |-> p, d |-> d, out |-> step(p, d, overflow_checks)]
    /\ UNCHANGED <<overflow_checks, dirVars, mapVars, queryVars, regionVars, diskVars>>

PositionValidNeighboursCall ==
    /\ call.op = "none"
    /\ \E p \in I32 \X I32, b \in Usize \X Usize :
          call' = [op |-> "Position::valid_neighbours", p |-> p, b |-> b,
                   out |-> Position_valid_neighbours(p, b, overflow_checks)]
    /\ UNCHANGED <<overflow_checks, dirVars, mapVars, queryVars, regionVars, diskVars>>

ValidPositionValidNeighboursCall ==
    /\ call.op = "none"
    /\ \E vp \in Usize \X Usize, b \in Usize \X Usize :
          call' = [op |-> "ValidPosition::valid_neighbours", p |-> vp, b |-> b,
                   out |-> ValidPosition_valid_neighbours(vp, b, overflow_checks)]
    /\ UNCHANGED <<overflow_checks, dirVars, mapVars, queryVars, regionVars, diskVars>>

PosNext ==
    \/ InBoundsCall
    \/ StepCall
    \/ PositionValidNeighboursCall
    \/ ValidPositionValidNeighboursCall

PosSpec == PosInit /\ [][PosNext]_vars

(***************************************************************************)
(* Map2D: a map built from rectangular lines, then queried                 *)
(***************************************************************************)
MapInit ==
    /\ elem \in {"char", "u32"}
    /\ lines \in RectLines(elem)
    /\ data = Map2DFrom(elem, lines).data
    /\ bounds = Map2DFrom(elem, lines).bounds

\* the values of the element type that occur in the model's grids
Elements == {convert(elem, c).val : c \in Alphabet(elem)}

(***************************************************************************)
(* position_iter: an iterator is created, then advanced with next()        *)
(***************************************************************************)
IterInit ==
    /\ overflow_checks = FALSE
    /\ MapInit
    /\ QueryIdle
    /\ DirIdle /\ PosIdle /\ RegionIdle /\ DiskIdle

PositionIterCall ==
    /\ iter' = [live |-> TRUE, st |-> position_iter(bounds), done |-> FALSE]
    /\ yielded' = << >>
    /\ UNCHANGED <<overflow_checks, dirVars, posVars, mapVars, query, regionVars, diskVars>>

PositionIterNext ==
    /\ iter.live
    /\ LET n == position_iter_next(iter.st, bounds)
       IN  /\ iter' = [live |-> TRUE, st |-> n.it, done |-> (n.item = None)]
           /\ yielded' = IF n.item = None THEN yielded ELSE Append(yielded, n.item[1])
    /\ UNCHANGED <<overflow_checks, dirVars, posVars, mapVars, query, regionVars, diskVars>>

IterNext == PositionIterCall \/ PositionIterNext

IterSpec == IterInit /\ [][IterNext]_vars

(***************************************************************************)
(* value, find and contiguous_region on a map                              *)
(***************************************************************************)
Init ==
    /\ overflow_checks \in BOOLEAN
    /\ MapInit
    /\ QueryIdle /\ RegionIdle
    /\ DirIdle /\ PosIdle /\ DiskIdle

ValueCall ==
    /\ pc = "idle" /\ query.op = "none"
    /\ \E p \in ValidPositions(bounds) :
          query' = [op |-> "value", arg |-> p, out |-> value(data, p)]
    /\ UNCHANGED <<overflow_checks, dirVars, posVars, mapVars, iter, yielded, regionVars, diskVars>>

FindCall ==
    /\ pc = "idle" /\ query.op = "none"
    /\ \E t \in Elements :
          query' = [op |-> "find", arg |-> t, out |-> find(data, bounds, t)]
    /\ UNCHANGED <<overflow_checks, dirVars, posVars, mapVars, iter, yielded, regionVars, diskVars>>

\* contiguous_region up to the loop: the sets are created, the start is queued
\* and the target value is looked up
ContiguousRegionCall ==
    /\ pc = "idle" /\ query.op = "none"
    /\ \E p \in ValidPositions(bounds) :
          LET v == value(data, p)
          IN  /\ pos' = p
              /\ visited' = {}
              /\ to_visit' = <<p>>
              /\ target_value' = v.val
              /\ pc' = IF v.panic THEN "panic" ELSE "loop"
    /\ expanded' = << >>
    /\ UNCHANGED <<overflow_checks, dirVars, posVars, mapVars, queryVars, diskVars>>

\* one iteration that pops a position already visited: `continue`
LoopSkip ==
    /\ pc = "loop" /\ to_visit # << >>
    /\ Head(to_visit) \in visited
    /\ to_visit' = Tail(to_visit)
    /\ UNCHANGED <<overflow_checks, dirVars, posVars, mapVars, queryVars, diskVars,
                   pos, visited, target_value, pc, expanded>>

\* one iteration that pops a new position, inserts it and enumerates its neighbours
LoopExpand ==
    /\ pc = "loop" /\ to_visit # << >>
    /\ Head(to_visit) \notin visited
    /\ visited' = visited \cup {Head(to_visit)}
    /\ expanded' = Append(expanded, Head(to_visit))
    /\ LET ns == ValidPosition_valid_neighbours(Head(to_visit), bounds, overflow_checks)
       IN  IF ns.panic
           THEN to_visit' = Tail(to_visit) /\ pc' = "panic"
           ELSE \E order \in Orders(ns.val) :
                   LET r == EnqueueMatching(data, target_value, Tail(to_visit), order, 1)
                   IN  /\ to_visit' = r.val
                       /\ pc' = IF r.panic THEN "panic" ELSE "loop"
    /\ UNCHANGED <<overflow_checks, dirVars, posVars, mapVars, queryVars, diskVars,
                   pos, target_value>>

\* pop_front returns None: the loop ends and visited is returned
LoopExit ==
    /\ pc = "loop" /\ to_visit = << >>
    /\ pc' = "done"
    /\ UNCHANGED <<overflow_checks, dirVars, posVars, mapVars, queryVars, diskVars,
                   pos, visited, to_visit, target_value, expanded>>

Next ==
    \/ ValueCall
    \/ FindCall
    \/ ContiguousRegionCall
    \/ LoopSkip
    \/ LoopExpand
    \/ LoopExit

Spec == Init /\ [][Next]_vars

(***************************************************************************)
(* Properties of Direction                                                 *)
(***************************************************************************)
\* the value d becomes under the pure rotations named by the calls in s
RECURSIVE Composed(_, _)
Composed(d, s) ==
    IF s = << >> THEN d
    ELSE LET e == CASE Head(s) = "right" -> turned_right(d)
                    [] Head(s) = "left" -> turned_left(d)
                    [] Head(s) = "around" -> turned_around(d)
         IN  Composed(e, Tail(s))

\* C7: rotation is a 4-cycle: for the direction d a variable holds after any
\* sequence of in-place turns, d.turned_right().turned_left() = d,
\* d.turned_left().turned_right() = d, d.turned_around().turned_around() = d, four
\* turned_right give d, fewer do not, turned_around is two turned_right; and the
\* variable holds the composition of the pure rotations of the calls made on it.
C7_RotationCycle ==
    /\ dir \in Direction
    /\ turned_left(turned_right(dir)) = dir
    /\ turned_right(turned_left(dir)) = dir
    /\ turned_around(turned_around(dir)) = dir
    /\ turned_right(turned_right(turned_right(turned_right(dir)))) = dir
    /\ turned_right(dir) # dir
    /\ turned_right(turned_right(dir)) # dir
    /\ turned_right(turned_right(turned_right(dir))) # dir
    /\ turned_around(dir) = turned_right(turned_right(dir))
    /\ dir = Composed(dir0, ops)

C7_Witness ==
    /\ Len(ops) = 3 /\ ops[1] = "right" /\ ops[2] = "around" /\ ops[3] = "left"
    /\ dir0 = "LEFT" /\ dir = "RIGHT"

(***************************************************************************)
(* Properties of Position / ValidPosition                                  *)
(***************************************************************************)
\* C5: in_bounds(Position(x, y), Bounds(w, h)) is Some(ValidPosition(x, y)) exactly
\* when 0 <= x < w and 0 <= y < h, and None otherwise, for every w and h of the
\* unsigned word and every x and y of the signed one.
C5_InBoundsExact ==
    call.op = "in_bounds" =>
        call.out = IF /\ 0 <= call.p[1] /\ call.p[1] < call.b[1]
                      /\ 0 <= call.p[2] /\ call.p[2] < call.b[2]
                   THEN Some(<<call.p[1], call.p[2]>>)
                   ELSE None

\* the positions one step from Position::from(vp) that in_bounds accepts
StepSet(vp, b, checks) ==
    LET ds == {d \in Direction : in_bounds(step(PositionFrom(vp), d, checks).val, b) # None}
    IN  {in_bounds(step(PositionFrom(vp), d, checks).val, b)[1] : d \in ds}

Width == Len(lines[1])
Height == Len(lines)

\* the element converted from character x of input line y
Cell(p) == convert(elem, lines[p[2] + 1][p[1] + 1]).val

Cells == (0..(Width - 1)) \X (0..(Height - 1))

Adjacent(p, q) ==
    \/ p[1] = q[1] /\ (p[2] = q[2] + 1 \/ q[2] = p[2] + 1)
    \/ p[2] = q[2] /\ (p[1] = q[1] + 1 \/ q[1] = p[1] + 1)

RECURSIVE Grow(_, _)
Grow(S, v) ==
    LET T == S \cup {q \in Cells : Cell(q) = v /\ \E r \in S : Adjacent(r, q)}
    IN  IF T = S THEN S ELSE Grow(T, v)

\* the 4-connected component of start among the cells holding start's value
Component(start) == Grow({start}, Cell(start))

\* C1: on every rectangular map, square or not, contiguous_region(start) returns
\* the 4-connected component of start (it does not fail, and the set it returns is
\* the component).
C1_RegionIsComponent ==
    /\ pc # "panic"
    /\ pc = "done" => visited = Component(pos)

\* C2: value(pos) never fails on a position valid for the map's bounds and returns
\* the element converted from character x of input line y.
C2_ValueIsCell ==
    query.op = "value" =>
        /\ ~query.out.panic
        /\ query.out.val = Cell(query.arg)

\* C3: on the map of the single line "AAB", find('A') = {(0,0),(1,0)},
\* contiguous_region((0,0)) = {(0,0),(1,0)} and contiguous_region((2,0)) = {(2,0)}.
C3_AABScenario ==
    (elem = "char" /\ lines = << <<"A", "A", "B">> >>) =>
        /\ bounds = <<3, 1>>
        /\ (query.op = "find" /\ query.arg = "A") =>
              query.out = Ok({<<0, 0>>, <<1, 0>>})
        /\ pc # "panic"
        /\ (pc = "done" /\ pos = <<0, 0>>) => visited = {<<0, 0>>, <<1, 0>>}
        /\ (pc = "done" /\ pos = <<2, 0>>) => visited = {<<2, 0>>}

NoRepeat(sq) == \A i, j \in 1..Len(sq) : sq[i] = sq[j] => i = j

\* C4: the loop of contiguous_region terminates with the frontier empty (a call
\* that has not returned with an empty frontier can always take another step of
\* the loop), and no position has its neighbours enumerated twice, so there are at
\* most width * height expansions.
C4_TerminatesExpandingOnce ==
    /\ pc # "idle" =>
          \/ pc = "done" /\ to_visit = << >>
          \/ ENABLED (LoopSkip \/ LoopExpand \/ LoopExit)
    /\ NoRepeat(expanded)
    /\ Len(expanded) <= Width * Height

\* C8: position_iter yields every ValidPosition(x, y) with x < w and y < h once and
\* nothing else, x outer and y inner, w * h items in all, afresh at each call.
C8_PositionIterOrder ==
    iter.live =>
        /\ bounds = <<Width, Height>>
        /\ Len(yielded) <= Width * Height
        /\ \A k \in 1..Len(yielded) :
              yielded[k] = <<(k - 1) \div Height, (k - 1) % Height>>
        /\ iter.done =>
              /\ Len(yielded) = Width * Height
              /\ NoRepeat(yielded)
              /\ {yielded[k] : k \in 1..Len(yielded)} = Cells

C8_Witness ==
    /\ iter.live /\ iter.done
    /\ bounds = <<3, 2>>
    /\ yielded = << <<0, 0>>, <<0, 1>>, <<1, 0>>, <<1, 1>>, <<2, 0>>, <<2, 1>> >>

(***************************************************************************)
(* day09: blocks_from_string, compressed, checksum                         *)
(***************************************************************************)
File(id, size) == [kind |-> "File", id |-> id, size |-> size]
Free(size) == [kind |-> "Free", id |-> 0, size |-> size]

\* str::parse::<usize> of a one-character piece of split("")
ParseUsize(c) == to_digit(c)

\* the pieces that parse, enumerated: even indices are files, odd ones free space
blocks_from_string(str) ==
    LET sizes == SelectSeq(str, LAMBDA c : ParseUsize(c) # None)
    IN  [i \in 1..Len(sizes) |->
            IF (i - 1) % 2 = 0
            THEN File((i - 1) \div 2, ParseUsize(sizes[i])[1])
            ELSE Free(ParseUsize(sizes[i])[1])]

RECURSIVE RangeSum(_, _)
RangeSum(from, to) == IF from >= to THEN 0 ELSE from + RangeSum(from + 1, to)

partial_checksum(id, start_position, size) ==
    id * RangeSum(start_position, start_position + size)

RECURSIVE ChecksumFrom(_, _, _)
ChecksumFrom(hd, i, seeker) ==
    IF i > Len(hd) THEN 0
    ELSE IF hd[i].kind = "Free"
    THEN ChecksumFrom(hd, i + 1, seeker + hd[i].size)
    ELSE partial_checksum(hd[i].id, seeker, hd[i].size)
         + ChecksumFrom(hd, i + 1, seeker + hd[i].size)

checksum(hd) == ChecksumFrom(hd, 1, 0)

Min(a, b) == IF a < b THEN a ELSE b

\* the disk maps of the model: non-empty strings of digits
DiskStrings ==
    UNION {[1..n -> {Digits[d + 1] : d \in 0..MaxDigit}] : n \in 1..MaxDiskLen}

DiskInit ==
    /\ overflow_checks = FALSE
    /\ string \in DiskStrings
    /\ harddisk = blocks_from_string(string)
    /\ left_block_idx = 0 /\ right_block_idx = 0 /\ compressed_harddisk = << >>
    /\ free_space_in_left_block = None /\ files_remaining_in_right_block = None
    /\ dpc = "start" /\ answer = None
    /\ DirIdle /\ PosIdle /\ MapIdle /\ QueryIdle /\ RegionIdle

\* compressed() up to its loop
CompressedCall ==
    /\ dpc = "start"
    /\ left_block_idx' = 0
    /\ right_block_idx' = Len(harddisk) - 1
    /\ compressed_harddisk' = << >>
    /\ free_space_in_left_block' = None
    /\ files_remaining_in_right_block' = None
    /\ dpc' = "loop"
    /\ UNCHANGED <<overflow_checks, dirVars, posVars, mapVars, queryVars, regionVars,
                   string, harddisk, answer>>

left_block == harddisk[left_block_idx + 1]
right_block == harddisk[right_block_idx + 1]

\* arm (_, Free): the right block is free space
ArmRightFree ==
    /\ dpc = "loop" /\ left_block_idx < right_block_idx
    /\ right_block.kind = "Free"
    /\ right_block_idx' = right_block_idx - 1
    /\ UNCHANGED <<overflow_checks, dirVars, posVars, mapVars, queryVars, regionVars,
                   string, harddisk, left_block_idx, compressed_harddisk,
                   free_space_in_left_block, files_remaining_in_right_block, dpc, answer>>

\* arm (File, _): the left block is a file and is copied
ArmLeftFile ==
    /\ dpc = "loop" /\ left_block_idx < right_block_idx
    /\ right_block.kind # "Free"
    /\ left_block.kind = "File"
    /\ compressed_harddisk' = Append(compressed_harddisk, File(left_block.id, left_block.size))
    /\ left_block_idx' = left_block_idx + 1
    /\ UNCHANGED <<overflow_checks, dirVars, posVars, mapVars, queryVars, regionVars,
                   string, harddisk, right_block_idx,
                   free_space_in_left_block, files_remaining_in_right_block, dpc, answer>>

\* arm (Free, File): blocks of the right file move into the left free space
ArmMove ==
    /\ dpc = "loop" /\ left_block_idx < right_block_idx
    /\ right_block.kind = "File"
    /\ left_block.kind = "Free"
    /\ LET free_size == IF free_space_in_left_block # None
                        THEN free_space_in_left_block[1] ELSE left_block.size
           file_size == IF files_remaining_in_right_block # None
                        THEN files_remaining_in_right_block[1] ELSE right_block.size
           movable_files == Min(free_size, file_size)
           new_free_size == free_size - movable_files
           new_file_size == file_size - movable_files
       IN  /\ compressed_harddisk' =
                 Append(compressed_harddisk, File(right_block.id, movable_files))
           /\ IF new_free_size = 0
              THEN left_block_idx' = left_block_idx + 1 /\ free_space_in_left_block' = None
              ELSE left_block_idx' = left_block_idx
                   /\ free_space_in_left_block' = Some(new_free_size)
           /\ IF new_file_size = 0
              THEN right_block_idx' = right_block_idx - 1
                   /\ files_remaining_in_right_block' = None
              ELSE right_block_idx' = right_block_idx
                   /\ files_remaining_in_right_block' = Some(new_file_size)
    /\ UNCHANGED <<overflow_checks, dirVars, posVars, mapVars, queryVars, regionVars,
                   string, harddisk, dpc, answer>>

\* the block pushed after the loop
FinalPush ==
    IF files_remaining_in_right_block # None
    THEN IF right_block.kind = "File"
         THEN <<File(right_block.id, files_remaining_in_right_block[1])>>
         ELSE << >>
    ELSE IF left_block.kind = "File"
    THEN <<File(left_block.id, left_block.size)>>
    ELSE << >>

\* the loop condition fails: the last block is pushed and compressed() returns
LoopEnd ==
    /\ dpc = "loop" /\ ~(left_block_idx < right_block_idx)
    /\ compressed_harddisk' = compressed_harddisk \o FinalPush
    /\ dpc' = "compressed"
    /\ UNCHANGED <<overflow_checks, dirVars, posVars, mapVars, queryVars, regionVars,
                   string, harddisk, left_block_idx, right_block_idx,
                   free_space_in_left_block, files_remaining_in_right_block, answer>>

\* part1: checksum of the compressed disk
Part1Checksum ==
    /\ dpc = "compressed"
    /\ answer' = Some(checksum(compressed_harddisk))
    /\ dpc' = "done"
    /\ UNCHANGED <<overflow_checks, dirVars, posVars, mapVars, queryVars, regionVars,
                   string, harddisk, left_block_idx, right_block_idx, compressed_harddisk,
                   free_space_in_left_block, files_remaining_in_right_block>>

DiskNext ==
    \/ CompressedCall
    \/ ArmRightFree
    \/ ArmLeftFile
    \/ ArmMove
    \/ LoopEnd
    \/ Part1Checksum

DiskSpec == DiskInit /\ [][DiskNext]_vars

(***************************************************************************)
(* Properties of day09                                                     *)
(***************************************************************************)
\* the disk map written out block by block: a file id, or -1 for a free block
RECURSIVE Repeat(_, _)
Repeat(v, n) == IF n = 0 THEN << >> ELSE <<v>> \o Repeat(v, n - 1)

RECURSIVE Layout(_, _)
Layout(str, i) ==
    IF i > Len(str) THEN << >>
    ELSE Repeat(IF (i - 1) % 2 = 0 THEN (i - 1) \div 2 ELSE -1, to_digit(str[i])[1])
         \o Layout(str, i + 1)

\* move the rightmost file block into the leftmost free slot until no free slot
\* lies to the left of a file block
RECURSIVE Compacted(_)
Compacted(cells) ==
    LET free == {i \in 1..Len(cells) : cells[i] = -1}
        used == {i \in 1..Len(cells) : cells[i] # -1}
    IN  IF free = {} \/ used = {} THEN cells
        ELSE LET i == CHOOSE x \in free : \A y \in free : x <= y
                 j == CHOOSE x \in used : \A y \in used : y <= x
             IN  IF i > j THEN cells
                 ELSE Compacted([cells EXCEPT ![i] = cells[j], ![j] = -1])

RECURSIVE CellSum(_, _)
CellSum(cells, i) ==
    IF i > Len(cells) THEN 0
    ELSE (IF cells[i] = -1 THEN 0 ELSE (i - 1) * cells[i]) + CellSum(cells, i + 1)

RECURSIVE SizeOf(_, _, _)
SizeOf(hd, id, i) ==
    IF i > Len(hd) THEN 0
    ELSE (IF hd[i].kind = "File" /\ hd[i].id = id THEN hd[i].size ELSE 0)
         + SizeOf(hd, id, i + 1)

\* C9: the checksum of the compressed disk is the checksum of the disk compacted
\* by moving the rightmost file block into the leftmost free slot until no free
\* slot lies left of a file block.
C9_ChecksumOfCompaction ==
    dpc = "done" => answer = Some(CellSum(Compacted(Layout(string, 1)), 1))

\* C10: compressed() conserves file blocks: per file id the output sizes sum to the
\* input size, the output holds no Free entry, and the loop exits with
\* left_block_idx = right_block_idx.
C10_BlocksConserved ==
    /\ (dpc = "loop" /\ ~(left_block_idx < right_block_idx)) =>
          left_block_idx = right_block_idx
    /\ dpc \in {"compressed", "done"} =>
          /\ \A i \in 1..Len(compressed_harddisk) : compressed_harddisk[i].kind = "File"
          /\ \A id \in 0..Len(harddisk) :
                SizeOf(compressed_harddisk, id, 1) = SizeOf(harddisk, id, 1)

====
